---- MODULE Spec2Model ----
(***************************************************************************)
(* A model of the invasive-urchin tracker's retrieval-and-aggregation      *)
(* pipeline (src/src/api.js): the paginated occurrence fetcher             *)
(* fetchOccurrencesForSpecies, the multi-species orchestrator              *)
(* fetchAllSpeciesOccurrences with its caller App.load, and the grid       *)
(* aggregator computeGridCells.                                            *)
(*                                                                         *)
(* JavaScript values that can reach the code through res.json() are        *)
(* tagged records [t, v]: t is the kind of the value, v its payload.       *)
(* Coordinates are held in tenths of a degree (35.4 is Num(354)).          *)
(***************************************************************************)
EXTENDS Integers, Sequences, FiniteSets, TLC

\* ---------------------------------------------------------------- bounds

\* Largest maxRecords passed to a single fetchOccurrencesForSpecies call.
MaxCap == 2
\* Largest number of raw records the source puts on one page.
MaxPageLen == 2
\* Largest number of page requests the source lets one call issue: at the
\* last one it answers so that the call stops.
MaxRequests == 2
\* Wall-clock year read by buildGbifUrl.
CurrentYear == 2026
\* Longest list of occurrences passed to computeGridCells.
MaxOccurrences == 4
\* Largest threshold passed to computeGridCells.
MaxThreshold == 2

\* ------------------------------------------------------ program constants

YEARS_BACK == 5
PAGE_LIMIT == 300
MAX_PER_SPECIES == 2000

SPECIES ==
  << [id |-> "purple", scientificName |-> "Strongylocentrotus purpuratus",
      commonName |-> "Purple Sea Urchin", regionHint |-> "US West Coast"],
     [id |-> "longspined", scientificName |-> "Centrostephanus rodgersii",
      commonName |-> "Long-spined Sea Urchin",
      regionHint |-> "Australia / Tasmania"],
     [id |-> "green", scientificName |-> "Strongylocentrotus droebachiensis",
      commonName |-> "Green Sea Urchin", regionHint |-> "North Atlantic"] >>

SpeciesIds == { SPECIES[i].id : i \in DOMAIN SPECIES }

SpeciesById(id) == CHOOSE sp \in { SPECIES[i] : i \in DOMAIN SPECIES } : sp.id = id

\* ------------------------------------------------------ JavaScript values

Num(v) == [t |-> "number", v |-> v]
\* +Infinity (sign 1) or -Infinity (sign -1): JSON.parse gives them for
\* number literals beyond the double range such as 1e999.
Inf(sign) == [t |-> "infinity", v |-> sign]
Null == [t |-> "null", v |-> 0]
Undefined == [t |-> "undefined", v |-> 0]
Str(s) == [t |-> "string", v |-> s]

\* The typeof operator on the values above.
typeof(x) ==
  CASE x.t \in {"number", "infinity"} -> "number"
    [] x.t = "null" -> "object"
    [] x.t = "undefined" -> "undefined"
    [] x.t = "string" -> "string"

\* Number.isFinite.
isFinite(x) == x.t = "number"

\* ------------------------------------------------------------ the source

RawRecord(key, lat, lng) ==
  [key |-> Num(key), decimalLatitude |-> lat, decimalLongitude |-> lng,
   year |-> Num(2024), country |-> Str("US"), stateProvince |-> Str("California")]

\* The raw occurrence objects the source puts on the pages of a single
\* fetch: finite coordinates, an infinite one, null, a string, missing.
RawPool ==
  { RawRecord(1, Num(354), Num(-1209)),
    RawRecord(2, Num(-5), Inf(1)),
    RawRecord(3, Null, Num(10)),
    RawRecord(4, Num(10), Str("12.5")),
    RawRecord(5, Undefined, Undefined),
    RawRecord(6, Str("35.4"), Num(-1209)) }

RECURSIVE SeqsUpTo(_, _)
SeqsUpTo(S, n) ==
  IF n = 0 THEN { <<>> }
  ELSE LET shorter == SeqsUpTo(S, n - 1)
       IN shorter \cup { Append(q, x) : q \in { r \in shorter : Len(r) = n - 1 }, x \in S }

\* The parsed body of a success response: data.results (an array, or
\* something that is not an array) and data.endOfRecords.
Body(isArray, items, eor) ==
  [isArray |-> isArray, items |-> items, endOfRecords |-> eor]

NoBody == [isArray |-> FALSE, items |-> <<>>, endOfRecords |-> FALSE, none |-> TRUE]

\* Bodies the source may send to a single fetch.
FetchData ==
  { Body(TRUE, p, e) : p \in SeqsUpTo(RawPool, MaxPageLen), e \in BOOLEAN }
    \cup { Body(FALSE, <<>>, FALSE) }

\* The raw occurrence objects the source holds for species id at page k.
SpeciesRaw(id, k) ==
  LET i == CHOOSE j \in DOMAIN SPECIES : SPECIES[j].id = id
  IN RawRecord(10 * i + k, Num(100 * i + k), Num(-100 * i))

\* Bodies the source may send to the fetch of species id at page k when all
\* species are fetched together.
AllData(id, k) ==
  { Body(TRUE, <<>>, FALSE),
    Body(TRUE, << SpeciesRaw(id, k) >>, TRUE),
    Body(TRUE, << SpeciesRaw(id, k) >>, FALSE) }

OkResponse == [ok |-> TRUE, status |-> 200, statusText |-> "OK"]

FailResponses ==
  { [ok |-> FALSE, status |-> 404, statusText |-> "Not Found"],
    [ok |-> FALSE, status |-> 500, statusText |-> "Internal Server Error"] }

\* The failure the source answers with when all species are fetched together.
AllFailResponses ==
  { [ok |-> FALSE, status |-> 500, statusText |-> "Internal Server Error"] }

NoResponse == [ok |-> FALSE, status |-> 0, statusText |-> ""]

\* ---------------------------------------------------------------- state

VARIABLES
  pc,           \* per species: position of its fetchOccurrencesForSpecies call
  maxRecords,   \* per species: the call's maxRecords argument
  all,          \* per species: the call's accumulator
  offset,       \* per species: the call's offset
  res,          \* per species: the response the call received last
  body,         \* per species: the body res.json() is about to resolve with
  requests,     \* per species: the URLs the call passed to fetch, in order
  result,       \* per species: what the call returned or threw
  history,      \* per species: the responses the call consumed, in order
  entry,        \* per species: state of the async closure passed to SPECIES.map
  allPromise,   \* state of the Promise.all(...) promise
  fetchAll,     \* outcome of fetchAllSpeciesOccurrences
  loadPc,       \* position of App's load()
  isMounted, speciesData, loading, error,   \* App state
  gridArgs,     \* arguments of a computeGridCells call
  gridResult    \* what the call returned

fetchVars == << pc, maxRecords, all, offset, res, body, requests, result >>
appVars == << entry, allPromise, fetchAll, loadPc, isMounted, speciesData, loading, error >>
gridVars == << gridArgs, gridResult >>
vars == << fetchVars, history, appVars, gridVars >>

\* -------------------------------------------------------------- helpers

Min(a, b) == IF a < b THEN a ELSE b

\* Array.prototype.slice(0, n) for an integer n >= 0.
slice(a, n) == SubSeq(a, 1, Min(n, Len(a)))

\* A call's outcome.
Pending == [kind |-> "pending"]
Returned(v) == [kind |-> "returned", value |-> v]
Thrown(e) == [kind |-> "thrown", error |-> e]

\* ------------------------------------------- fetchOccurrencesForSpecies

\* The query of the URL buildGbifUrl returns. The call wraps it as
\* CORS_PROXY + encodeURIComponent(url), which keeps distinct queries distinct.
buildGbifUrl(scientificName, off) ==
  [scientificName |-> scientificName, hasCoordinate |-> "true",
   year |-> << CurrentYear - YEARS_BACK, CurrentYear >>,
   limit |-> PAGE_LIMIT, offset |-> off]

\* const pageResults = Array.isArray(data.results) ? data.results : [];
pageResults(data) == IF data.isArray THEN data.items ELSE <<>>

\* A faulty variant of the filter's predicate: the longitude is not tested.
OnlyLatitudeIsNumber(r) == typeof(r.decimalLatitude) = "number"

\* The predicate of the filter over a page's raw results.
HasNumberCoordinates(r) ==
  /\ typeof(r.decimalLatitude) = "number"
  /\ typeof(r.decimalLongitude) = "number"

\* The object the map builds from a raw result.
Sanitized(r) ==
  [key |-> r.key, lat |-> r.decimalLatitude, lng |-> r.decimalLongitude,
   year |-> r.year, country |-> r.country, stateProvince |-> r.stateProvince]

\* const cleaned = pageResults.filter(...).map(...);
cleaned(page) ==
  LET kept == SelectSeq(page, HasNumberCoordinates)
  IN [i \in 1..Len(kept) |-> Sanitized(kept[i])]

\* The error thrown for a response that is not ok:
\* `GBIF request failed (${res.status}): ${res.statusText}`.
RequestFailed(r) ==
  [name |-> "Error", message |-> "GBIF request failed",
   status |-> r.status, statusText |-> r.statusText]

\* The error fetch rejects with when the request could not be made.
FailedToFetch ==
  [name |-> "TypeError", message |-> "Failed to fetch", status |-> 0, statusText |-> ""]

\* if (data.endOfRecords || pageResults.length === 0) break;
Break(data) == data.endOfRecords \/ Len(pageResults(data)) = 0

\* A faulty variant of the offset's advance: the offset stays.
SameOffset(off) == off

\* offset += PAGE_LIMIT;
NextOffset(off) == off + PAGE_LIMIT

\* A faulty variant of the return: the accumulator is not cut.
ReturnAll(a, m) == a

\* return all.slice(0, maxRecords);
ReturnValue(a, m) == slice(a, m)

\* The test of the while loop with accumulator a, offset off and cap m: the
\* next request is issued, or the call returns.
LoopTest(a, off, m, scientificName) ==
  IF Len(a) < m
  THEN [pc |-> "awaitFetch", issued |-> << buildGbifUrl(scientificName, off) >>,
        result |-> Pending]
  ELSE [pc |-> "returned", issued |-> <<>>, result |-> Returned(ReturnValue(a, m))]

\* The end of a loop iteration that took `data` with accumulator a.
AfterPage(a, off, m, scientificName, data) ==
  IF Break(data)
  THEN [pc |-> "returned", issued |-> <<>>, offset |-> off,
        result |-> Returned(ReturnValue(a, m))]
  ELSE LET nx == LoopTest(a, NextOffset(off), m, scientificName)
       IN [pc |-> nx.pc, issued |-> nx.issued, offset |-> NextOffset(off),
           result |-> nx.result]

\* A faulty variant of the accumulator: `all` is declared once for the
\* module, so every call appends to the same array.
ConcatShared(id, page) == [t \in SpeciesIds |-> all[t] \o cleaned(page)]

\* all = all.concat(cleaned), in the call of species id.
Concat(id, page) == [all EXCEPT ![id] = @ \o cleaned(page)]

\* A caller other than fetchAllSpeciesOccurrences calls
\* fetchOccurrencesForSpecies(scientificName, m) for species id: the
\* declarations and the first test of the loop.
Call(id, m) ==
  /\ \A t \in SpeciesIds : pc[t] = "idle"
  /\ loadPc = "idle"
  /\ LET nx == LoopTest(<<>>, 0, m, SpeciesById(id).scientificName)
     IN /\ pc' = [pc EXCEPT ![id] = nx.pc]
        /\ requests' = [requests EXCEPT ![id] = nx.issued]
        /\ result' = [result EXCEPT ![id] = nx.result]
  /\ maxRecords' = [maxRecords EXCEPT ![id] = m]
  /\ all' = [all EXCEPT ![id] = <<>>]
  /\ offset' = [offset EXCEPT ![id] = 0]
  /\ UNCHANGED << res, body >>

\* A faulty variant of FetchResolves: on a response that is not ok the call
\* returns what it has accumulated.
FetchResolvesPartial(id, r, d) ==
  /\ pc[id] = "awaitFetch"
  /\ res' = [res EXCEPT ![id] = r]
  /\ IF ~r.ok
     THEN /\ pc' = [pc EXCEPT ![id] = "returned"]
          /\ result' = [result EXCEPT ![id] = Returned(ReturnValue(all[id], maxRecords[id]))]
          /\ body' = body
     ELSE /\ pc' = [pc EXCEPT ![id] = "awaitJson"]
          /\ body' = [body EXCEPT ![id] = d]
          /\ result' = result
  /\ UNCHANGED << maxRecords, all, offset, requests >>

\* The fetch promise of species id resolves with response r, whose body will
\* parse to d: the call throws on a response that is not ok, and awaits
\* res.json() otherwise.
FetchResolves(id, r, d) ==
  /\ pc[id] = "awaitFetch"
  /\ res' = [res EXCEPT ![id] = r]
  /\ IF ~r.ok
     THEN /\ pc' = [pc EXCEPT ![id] = "thrown"]
          /\ result' = [result EXCEPT ![id] = Thrown(RequestFailed(r))]
          /\ body' = body
     ELSE /\ pc' = [pc EXCEPT ![id] = "awaitJson"]
          /\ body' = [body EXCEPT ![id] = d]
          /\ result' = result
  /\ UNCHANGED << maxRecords, all, offset, requests >>

\* The fetch promise of species id rejects (the request could not be made):
\* the await throws and the call fails with that error.
FetchRejects(id) ==
  /\ pc[id] = "awaitFetch"
  /\ pc' = [pc EXCEPT ![id] = "thrown"]
  /\ result' = [result EXCEPT ![id] = Thrown(FailedToFetch)]
  /\ UNCHANGED << maxRecords, all, offset, res, body, requests >>

\* res.json() of species id resolves: the page is filtered, mapped and
\* appended, then the loop breaks, goes round or ends.
JsonResolves(id) ==
  /\ pc[id] = "awaitJson"
  /\ LET data == body[id]
         acc == Concat(id, pageResults(data))
         nx == AfterPage(acc[id], offset[id], maxRecords[id],
                         SpeciesById(id).scientificName, data)
     IN /\ all' = acc
        /\ offset' = [offset EXCEPT ![id] = nx.offset]
        /\ pc' = [pc EXCEPT ![id] = nx.pc]
        /\ requests' = [requests EXCEPT ![id] = @ \o nx.issued]
        /\ result' = [result EXCEPT ![id] = nx.result]
  /\ body' = [body EXCEPT ![id] = NoBody]
  /\ UNCHANGED << maxRecords, res >>

\* The source's last page: with MaxRequests requests issued, the body d makes
\* the call of species id stop.
Stops(id, d) ==
  \/ Break(d)
  \/ Len(all[id]) + Len(cleaned(pageResults(d))) >= maxRecords[id]

Answers(id, D) ==
  { d \in D : Len(requests[id]) < MaxRequests \/ Stops(id, d) }

\* ------------------------------- fetchAllSpeciesOccurrences and App.load

\* A faulty variant of PromiseAll: it waits for every closure and fulfils
\* with the values of those that fulfilled, passing over the rejected ones.
PromiseAllSettled(p, e) ==
  IF p.kind # "pending" \/ \E id \in SpeciesIds : e[id].kind = "pending"
  THEN p
  ELSE LET fulfilled == SelectSeq([i \in DOMAIN SPECIES |-> e[SPECIES[i].id]],
                                  LAMBDA x : x.kind = "returned")
       IN Returned([i \in 1..Len(fulfilled) |-> fulfilled[i].value])

\* Promise.all over the closures' promises e (by species, in SPECIES order)
\* when one of them settles, p being the state of its promise before: it
\* rejects with the first rejection and fulfils, with the array of the
\* closures' values, once every closure has fulfilled.
PromiseAll(p, e) ==
  IF p.kind # "pending" THEN p
  ELSE IF \E id \in SpeciesIds : e[id].kind = "thrown"
  THEN Thrown((CHOOSE x \in { e[id] : id \in SpeciesIds } : x.kind = "thrown").error)
  ELSE IF \A id \in SpeciesIds : e[id].kind = "returned"
  THEN Returned([i \in DOMAIN SPECIES |-> e[SPECIES[i].id].value])
  ELSE p

\* Object.fromEntries over an array of [key, value] pairs: a later pair
\* replaces an earlier one with the same key.
fromEntries(pairs) ==
  [k \in { pairs[i][1] : i \in DOMAIN pairs } |->
     pairs[CHOOSE i \in DOMAIN pairs :
             /\ pairs[i][1] = k
             /\ \A j \in DOMAIN pairs : pairs[j][1] = k => j <= i][2]]

\* The effect runs load(): setLoading(true), then fetchAllSpeciesOccurrences
\* starts one closure per species, each calling fetchOccurrencesForSpecies
\* with the default cap up to its first await.
Load ==
  /\ loadPc = "idle"
  /\ \A id \in SpeciesIds : pc[id] = "idle"
  /\ loading' = TRUE
  /\ loadPc' = "awaitFetchAll"
  /\ LET nx == [id \in SpeciesIds |->
                  LoopTest(<<>>, 0, MAX_PER_SPECIES, SpeciesById(id).scientificName)]
     IN /\ pc' = [id \in SpeciesIds |-> nx[id].pc]
        /\ requests' = [id \in SpeciesIds |-> nx[id].issued]
        /\ result' = [id \in SpeciesIds |-> nx[id].result]
  /\ maxRecords' = [id \in SpeciesIds |-> MAX_PER_SPECIES]
  /\ all' = [id \in SpeciesIds |-> <<>>]
  /\ offset' = [id \in SpeciesIds |-> 0]
  /\ entry' = [id \in SpeciesIds |-> Pending]
  /\ allPromise' = Pending
  /\ fetchAll' = Pending
  /\ UNCHANGED << res, body, isMounted, speciesData, error >>

\* The closure of species id goes on after its fetchOccurrencesForSpecies
\* call settled: it returns [s.id, occurrences] or fails with the call's
\* error, and Promise.all takes note.
EntrySettles(id) ==
  /\ loadPc = "awaitFetchAll"
  /\ entry[id].kind = "pending"
  /\ pc[id] \in {"returned", "thrown"}
  /\ LET e == [entry EXCEPT ![id] =
                 IF result[id].kind = "returned"
                 THEN Returned(<< id, result[id].value >>)
                 ELSE result[id]]
     IN /\ entry' = e
        /\ allPromise' = PromiseAll(allPromise, e)
  /\ UNCHANGED << fetchVars, fetchAll, loadPc, isMounted, speciesData, loading, error >>

\* fetchAllSpeciesOccurrences goes on after Promise.all settled: it returns
\* Object.fromEntries(entries), or fails with the rejection.
FetchAllSettles ==
  /\ loadPc = "awaitFetchAll"
  /\ fetchAll.kind = "pending"
  /\ allPromise.kind # "pending"
  /\ fetchAll' = IF allPromise.kind = "returned"
                 THEN Returned(fromEntries(allPromise.value))
                 ELSE allPromise
  /\ UNCHANGED << fetchVars, entry, allPromise, loadPc, isMounted, speciesData,
                  loading, error >>

\* load() goes on after fetchAllSpeciesOccurrences settled: the try block's
\* rest, or the catch block, then the finally block.
LoadContinues ==
  /\ loadPc = "awaitFetchAll"
  /\ fetchAll.kind # "pending"
  /\ loadPc' = "done"
  /\ speciesData' = IF fetchAll.kind = "returned" /\ isMounted
                    THEN fetchAll.value ELSE speciesData
  /\ error' = IF fetchAll.kind = "thrown" /\ isMounted
              THEN "Failed to fetch GBIF data. Check your network connection or CORS settings."
              ELSE error
  /\ loading' = IF isMounted THEN FALSE ELSE loading
  /\ UNCHANGED << fetchVars, entry, allPromise, fetchAll, isMounted >>

\* The component unmounts: the effect's cleanup runs.
Unmount ==
  /\ loadPc # "idle"
  /\ isMounted
  /\ isMounted' = FALSE
  /\ UNCHANGED << fetchVars, entry, allPromise, fetchAll, loadPc, speciesData,
                  loading, error >>

\* ----------------------------------------------------- computeGridCells

\* A faulty variant of FloorIndex: the quotient is rounded toward zero.
TruncIndex(x, cellSizeDeg) ==
  IF x.t = "infinity" THEN x
  ELSE IF x.v >= 0 THEN Num(x.v \div cellSizeDeg)
  ELSE Num(-((-x.v) \div cellSizeDeg))

\* Math.floor(x / cellSizeDeg) for a coordinate x in tenths of a degree and a
\* positive cell size in tenths of a degree: an infinite x stays infinite.
FloorIndex(x, cellSizeDeg) ==
  IF x.t = "infinity" THEN x ELSE Num(x.v \div cellSizeDeg)

\* The key `${latIdx}_${lngIdx}`: the two printed indices hold no "_", so
\* the string stands for the pair.
GridKey(latIdx, lngIdx) == << latIdx, lngIdx >>

\* (idx + 0.5) * cellSizeDeg, in twentieths of a degree.
Center(idx, cellSizeDeg) ==
  IF idx.t = "infinity" THEN idx ELSE Num((2 * idx.v + 1) * cellSizeDeg)

\* The Map `grid` is the sequence of its [key, cell] entries in insertion
\* order. grid.get(key) || { latIdx, lngIdx, count: 0, samples: [] }
GridGet(grid, key, latIdx, lngIdx) ==
  IF \E i \in DOMAIN grid : grid[i].key = key
  THEN grid[CHOOSE i \in DOMAIN grid : grid[i].key = key].cell
  ELSE [latIdx |-> latIdx, lngIdx |-> lngIdx, count |-> 0, samples |-> <<>>]

\* grid.set(key, cell): an existing key keeps its place.
GridSet(grid, key, cell) ==
  IF \E i \in DOMAIN grid : grid[i].key = key
  THEN [i \in DOMAIN grid |-> IF grid[i].key = key THEN [key |-> key, cell |-> cell]
                                                   ELSE grid[i]]
  ELSE Append(grid, [key |-> key, cell |-> cell])

\* The body of the forEach callback for occurrence o.
AddOccurrence(grid, o, cellSizeDeg) ==
  LET latIdx == FloorIndex(o.lat, cellSizeDeg)
      lngIdx == FloorIndex(o.lng, cellSizeDeg)
      key == GridKey(latIdx, lngIdx)
      cell == GridGet(grid, key, latIdx, lngIdx)
  IN GridSet(grid, key, [cell EXCEPT !.count = @ + 1, !.samples = Append(@, o)])

\* occurrences.forEach(...), from the i-th occurrence on.
RECURSIVE forEachOccurrence(_, _, _, _)
forEachOccurrence(grid, occurrences, cellSizeDeg, i) ==
  IF i > Len(occurrences) THEN grid
  ELSE forEachOccurrence(AddOccurrence(grid, occurrences[i], cellSizeDeg),
                         occurrences, cellSizeDeg, i + 1)

\* A faulty variant of Classify: the `else` before the second `if` is left
\* out, so a count that reaches `high` goes on to the second test.
ClassifyTwice(count, high, medium) ==
  IF count >= high /\ count >= medium
  THEN [risk |-> "Medium", highCount |-> 1, medCount |-> 1, lowCount |-> 0]
  ELSE IF count >= high
  THEN [risk |-> "High", highCount |-> 1, medCount |-> 0, lowCount |-> 1]
  ELSE IF count >= medium
  THEN [risk |-> "Medium", highCount |-> 0, medCount |-> 1, lowCount |-> 0]
  ELSE [risk |-> "Low", highCount |-> 0, medCount |-> 0, lowCount |-> 1]

\* A faulty variant of Classify: > for >=.
ClassifyStrict(count, high, medium) ==
  IF count > high
  THEN [risk |-> "High", highCount |-> 1, medCount |-> 0, lowCount |-> 0]
  ELSE IF count > medium
  THEN [risk |-> "Medium", highCount |-> 0, medCount |-> 1, lowCount |-> 0]
  ELSE [risk |-> "Low", highCount |-> 0, medCount |-> 0, lowCount |-> 1]

\* The if / else-if / else over a cell's count: the risk and the counter it
\* increments.
Classify(count, high, medium) ==
  IF count >= high
  THEN [risk |-> "High", highCount |-> 1, medCount |-> 0, lowCount |-> 0]
  ELSE IF count >= medium
  THEN [risk |-> "Medium", highCount |-> 0, medCount |-> 1, lowCount |-> 0]
  ELSE [risk |-> "Low", highCount |-> 0, medCount |-> 0, lowCount |-> 1]

\* The for loop over grid.entries(), from the i-th entry on, with the cells
\* and counters built so far in acc.
RECURSIVE forEntries(_, _, _, _, _, _)
forEntries(grid, i, cellSizeDeg, high, medium, acc) ==
  IF i > Len(grid) THEN acc
  ELSE
    LET id == grid[i].key
        cell == grid[i].cell
        c == Classify(cell.count, high, medium)
    IN forEntries(grid, i + 1, cellSizeDeg, high, medium,
         [cells |-> Append(acc.cells,
                      [id |-> id,
                       lat |-> Center(cell.latIdx, cellSizeDeg),
                       lng |-> Center(cell.lngIdx, cellSizeDeg),
                       count |-> cell.count,
                       risk |-> c.risk,
                       samples |-> cell.samples]),
          highCount |-> acc.highCount + c.highCount,
          medCount |-> acc.medCount + c.medCount,
          lowCount |-> acc.lowCount + c.lowCount])

computeGridCells(occurrences, cellSizeDeg, thresholds) ==
  LET high == thresholds.high
      medium == thresholds.medium
      grid == forEachOccurrence(<<>>, occurrences, cellSizeDeg, 1)
      done == forEntries(grid, 1, cellSizeDeg, high, medium,
                [cells |-> <<>>, highCount |-> 0, medCount |-> 0, lowCount |-> 0])
  IN [cells |-> done.cells,
      summary |-> [totalRecords |-> Len(occurrences),
                   cellCount |-> Len(done.cells),
                   highCount |-> done.highCount,
                   medCount |-> done.medCount,
                   lowCount |-> done.lowCount]]

\* A caller (App's useMemo) calls computeGridCells with gridArgs.
ComputeGrid ==
  /\ gridResult.kind = "pending"
  /\ gridResult' = Returned(computeGridCells(gridArgs.occurrences, gridArgs.cellSizeDeg,
                                             gridArgs.thresholds))
  /\ UNCHANGED gridArgs

\* ------------------------------------------------------- initial state

InitFetch ==
  /\ pc = [id \in SpeciesIds |-> "idle"]
  /\ maxRecords = [id \in SpeciesIds |-> MAX_PER_SPECIES]
  /\ all = [id \in SpeciesIds |-> <<>>]
  /\ offset = [id \in SpeciesIds |-> 0]
  /\ res = [id \in SpeciesIds |-> NoResponse]
  /\ body = [id \in SpeciesIds |-> NoBody]
  /\ requests = [id \in SpeciesIds |-> <<>>]
  /\ result = [id \in SpeciesIds |-> Pending]
  /\ history = [id \in SpeciesIds |-> <<>>]

\* App's state hooks before the effect runs.
InitApp ==
  /\ entry = [id \in SpeciesIds |-> Pending]
  /\ allPromise = Pending
  /\ fetchAll = Pending
  /\ loadPc = "idle"
  /\ isMounted = TRUE
  /\ speciesData = [id \in {} |-> <<>>]
  /\ loading = TRUE
  /\ error = "null"

InitGrid ==
  /\ gridArgs = [occurrences |-> <<>>, cellSizeDeg |-> 10,
                 thresholds |-> [high |-> 30, medium |-> 10]]
  /\ gridResult = Pending

Init == InitFetch /\ InitApp /\ InitGrid

\* ------------------------------------------------ one fetch by itself

NextFetch ==
  \/ \E id \in SpeciesIds, m \in 0..MaxCap :
       Call(id, m) /\ UNCHANGED << history, appVars, gridVars >>
  \/ \E id \in { t \in SpeciesIds : pc[t] = "awaitFetch" } :
       \E d \in Answers(id, FetchData) :
         FetchResolves(id, OkResponse, d) /\ UNCHANGED << history, appVars, gridVars >>
  \/ \E id \in SpeciesIds, r \in FailResponses :
       FetchResolves(id, r, NoBody) /\ UNCHANGED << history, appVars, gridVars >>
  \/ \E id \in SpeciesIds :
       FetchRejects(id) /\ UNCHANGED << history, appVars, gridVars >>
  \/ \E id \in SpeciesIds :
       JsonResolves(id) /\ UNCHANGED << history, appVars, gridVars >>

SpecFetch == Init /\ [][NextFetch]_vars

\* ------------------------------------------- properties of one fetch

\* A coordinate value that is present and numeric.
PresentAndNumeric(v) == v.t \in {"number", "infinity"}

BothPresentAndNumeric(r) ==
  PresentAndNumeric(r.decimalLatitude) /\ PresentAndNumeric(r.decimalLongitude)

\* C1 (record cap): a call that returned gave back at most maxRecords
\* records, and when its accumulator holds maxRecords records or more, the
\* result is the first maxRecords of them.
C1_RecordCap ==
  \A id \in SpeciesIds :
    result[id].kind = "returned" =>
      /\ Len(result[id].value) <= maxRecords[id]
      /\ Len(all[id]) >= maxRecords[id] =>
           result[id].value = [i \in 1..maxRecords[id] |-> all[id][i]]

\* A call returned after its last page took the accumulator past the cap.
C1_Witness ==
  \E id \in SpeciesIds :
    /\ result[id].kind = "returned"
    /\ maxRecords[id] >= 1
    /\ Len(all[id]) > maxRecords[id]
    /\ Len(requests[id]) >= 2

\* C2 (fetch failure is immediate and total): a call whose last response was
\* not a success has thrown an error carrying that response's status and
\* reason, so it returned no records, and once a call has thrown it issues no
\* further request and its outcome never changes.
C2_FailureIsTotal ==
  /\ [](\A id \in SpeciesIds :
          res[id] \in FailResponses =>
            /\ pc[id] = "thrown"
            /\ result[id].kind = "thrown"
            /\ result[id].error.status = res[id].status
            /\ result[id].error.statusText = res[id].statusText)
  /\ [][\A id \in SpeciesIds :
          pc[id] = "thrown" =>
            /\ pc'[id] = "thrown"
            /\ requests'[id] = requests[id]
            /\ result'[id] = result[id]]_vars

\* A later page failed: the call threw with records from an earlier page in
\* its accumulator.
C2_Witness ==
  \E id \in SpeciesIds :
    /\ res[id] \in FailResponses
    /\ pc[id] = "thrown"
    /\ Len(all[id]) >= 1
    /\ Len(requests[id]) >= 2

\* C4 (coordinate filtering): when a page is processed, the accumulator grows
\* by exactly the page's records whose latitude and longitude are both present
\* and numeric, in page order and after the records of the earlier pages, and
\* the dropped records do not fail the call.
C4_CoordinateFiltering ==
  [][\A id \in SpeciesIds :
       (pc[id] = "awaitJson" /\ pc'[id] # "awaitJson") =>
         LET kept == SelectSeq(body[id].items, BothPresentAndNumeric)
             n == Len(all[id])
         IN /\ Len(all'[id]) = n + Len(kept)
            /\ SubSeq(all'[id], 1, n) = all[id]
            /\ \A i \in 1..Len(kept) :
                 /\ all'[id][n + i].key = kept[i].key
                 /\ all'[id][n + i].lat = kept[i].decimalLatitude
                 /\ all'[id][n + i].lng = kept[i].decimalLongitude
            /\ pc'[id] # "thrown"]_vars

\* A second page holding a record to keep and a record to drop arrives at a
\* call that accumulated records from its first page.
C4_Witness ==
  \E id \in SpeciesIds :
    /\ pc[id] = "awaitJson"
    /\ Len(all[id]) >= 1
    /\ \E i, j \in 1..Len(body[id].items) :
         /\ BothPresentAndNumeric(body[id].items[i])
         /\ ~BothPresentAndNumeric(body[id].items[j])

\* C5 (finite coordinates): every record a call returned has a finite
\* latitude and a finite longitude.
C5_ReturnedCoordinatesFinite ==
  \A id \in SpeciesIds :
    result[id].kind = "returned" =>
      \A i \in 1..Len(result[id].value) :
        isFinite(result[id].value[i].lat) /\ isFinite(result[id].value[i].lng)

\* C9 (pagination protocol): the i-th request of a call is for offset
\* (i - 1) * PAGE_LIMIT with page size PAGE_LIMIT; a request is issued only
\* when none is outstanding; after a page, the next request is issued iff the
\* accumulator is below maxRecords and the page had endOfRecords false and at
\* least one raw result; a first page of valid records with endOfRecords true
\* ends the call after one request, with those records as its result.
C9_PaginationProtocol ==
  /\ [](\A id \in SpeciesIds : \A i \in 1..Len(requests[id]) :
          /\ requests[id][i].offset = (i - 1) * PAGE_LIMIT
          /\ requests[id][i].limit = PAGE_LIMIT
          /\ requests[id][i].scientificName = SpeciesById(id).scientificName)
  /\ [][\A id \in SpeciesIds :
          /\ requests'[id] # requests[id] =>
               /\ pc[id] # "awaitFetch"
               /\ pc'[id] = "awaitFetch"
               /\ Len(requests'[id]) = Len(requests[id]) + 1
          /\ (pc[id] = "awaitJson" /\ pc'[id] # "awaitJson") =>
               /\ (Len(requests'[id]) = Len(requests[id]) + 1) <=>
                    /\ Len(all'[id]) < maxRecords[id]
                    /\ ~body[id].endOfRecords
                    /\ Len(body[id].items) >= 1
               /\ Len(requests'[id]) = Len(requests[id]) => pc'[id] = "returned"
               /\ ( /\ Len(requests[id]) = 1
                    /\ body[id].endOfRecords
                    /\ Len(body[id].items) <= maxRecords[id]
                    /\ \A i \in 1..Len(body[id].items) :
                         BothPresentAndNumeric(body[id].items[i]) ) =>
                    /\ requests'[id] = requests[id]
                    /\ result'[id].kind = "returned"
                    /\ Len(result'[id].value) = Len(body[id].items)
                    /\ \A i \in 1..Len(body[id].items) :
                         result'[id].value[i].key = body[id].items[i].key]_vars

\* A call went through two pages, at offsets 0 and PAGE_LIMIT, and returned.
C9_Witness ==
  \E id \in SpeciesIds :
    /\ pc[id] = "returned"
    /\ Len(requests[id]) = 2
    /\ offset[id] = PAGE_LIMIT
    /\ Len(result[id].value) >= 2

\* ------------------------------------------- all species fetched at once

Response(r, d) == [kind |-> "response", res |-> r, body |-> d]
Rejection == [kind |-> "rejection", res |-> NoResponse, body |-> NoBody]

Record(id, h) == history' = [history EXCEPT ![id] = Append(@, h)]

NextAll ==
  \/ Load /\ UNCHANGED << history, gridVars >>
  \/ \E id \in { t \in SpeciesIds : pc[t] = "awaitFetch" } :
       \E d \in Answers(id, AllData(id, Len(requests[id]))) :
         FetchResolves(id, OkResponse, d) /\ Record(id, Response(OkResponse, d))
           /\ UNCHANGED << appVars, gridVars >>
  \/ \E id \in SpeciesIds, r \in AllFailResponses :
       FetchResolves(id, r, NoBody) /\ Record(id, Response(r, NoBody))
         /\ UNCHANGED << appVars, gridVars >>
  \/ \E id \in SpeciesIds :
       FetchRejects(id) /\ Record(id, Rejection) /\ UNCHANGED << appVars, gridVars >>
  \/ \E id \in SpeciesIds :
       JsonResolves(id) /\ UNCHANGED << history, appVars, gridVars >>
  \/ \E id \in SpeciesIds : EntrySettles(id) /\ UNCHANGED << history, gridVars >>
  \/ FetchAllSettles /\ UNCHANGED << history, gridVars >>
  \/ LoadContinues /\ UNCHANGED << history, gridVars >>
  \/ Unmount /\ UNCHANGED << history, gridVars >>

SpecAll == Init /\ [][NextAll]_vars

\* ------------------------------- properties of the all-species fetch

\* C3 (all or nothing): once the closure of a species has failed, Promise.all
\* has rejected, fetchAllSpeciesOccurrences does not return a map and load()
\* hands no map to the component; a rejected Promise.all makes
\* fetchAllSpeciesOccurrences fail with the same error; a map is returned
\* only when every species' call returned, and it has exactly one entry per
\* catalog id, holding that species' own records; the component holds either
\* no data or that complete map; and while a species' call has failed and
\* load() has not ended, a step that carries the failure on (the closure's,
\* fetchAllSpeciesOccurrences' or load()'s) is ready to run.
C3_AllOrNothing ==
  /\ (\E id \in SpeciesIds : entry[id].kind = "thrown") =>
       /\ allPromise.kind = "thrown"
       /\ fetchAll.kind # "returned"
       /\ DOMAIN speciesData = {}
  /\ (\E id \in SpeciesIds : pc[id] = "thrown") => fetchAll.kind # "returned"
  /\ (allPromise.kind = "thrown" /\ fetchAll.kind # "pending") => fetchAll = allPromise
  /\ fetchAll.kind = "thrown" =>
       /\ \E id \in SpeciesIds : result[id] = fetchAll
       /\ DOMAIN speciesData = {}
  /\ fetchAll.kind = "returned" =>
       /\ \A id \in SpeciesIds : result[id].kind = "returned"
       /\ DOMAIN fetchAll.value = SpeciesIds
       /\ \A id \in SpeciesIds : fetchAll.value[id] = result[id].value
  /\ DOMAIN speciesData # {} =>
       /\ fetchAll.kind = "returned"
       /\ speciesData = fetchAll.value
  /\ ((\E id \in SpeciesIds : pc[id] = "thrown") /\ loadPc = "awaitFetchAll") =>
       ENABLED ( \/ \E id \in SpeciesIds : pc[id] = "thrown" /\ EntrySettles(id)
                 \/ allPromise.kind = "thrown" /\ FetchAllSettles
                 \/ fetchAll.kind = "thrown" /\ LoadContinues )

\* One species failed after the two others had completed with records: the
\* whole operation failed and load() ended with no data.
C3_Witness ==
  /\ loadPc = "done"
  /\ isMounted
  /\ fetchAll.kind = "thrown"
  /\ DOMAIN speciesData = {}
  /\ \E id \in SpeciesIds :
       /\ entry[id].kind = "thrown"
       /\ \A t \in SpeciesIds \ {id} :
            /\ entry[t].kind = "returned"
            /\ Len(result[t].value) >= 1

\* The state a fetchOccurrencesForSpecies(name, m) call is in when it runs
\* by itself from accumulator a, offset off and issued requests reqs and
\* receives the responses h, one after the other.
RECURSIVE RunAlone(_, _, _, _, _, _)
RunAlone(h, a, off, reqs, m, name) ==
  IF Len(a) >= m
  THEN [all |-> a, offset |-> off, requests |-> reqs,
        result |-> Returned(SubSeq(a, 1, Min(m, Len(a))))]
  ELSE
    LET issued == Append(reqs, buildGbifUrl(name, off))
    IN IF h = <<>>
       THEN [all |-> a, offset |-> off, requests |-> issued, result |-> Pending]
       ELSE IF Head(h).kind = "rejection"
       THEN [all |-> a, offset |-> off, requests |-> issued,
             result |-> Thrown(FailedToFetch)]
       ELSE IF ~Head(h).res.ok
       THEN [all |-> a, offset |-> off, requests |-> issued,
             result |-> Thrown(RequestFailed(Head(h).res))]
       ELSE
         LET a2 == a \o cleaned(pageResults(Head(h).body))
         IN IF Head(h).body.endOfRecords \/ Len(pageResults(Head(h).body)) = 0
            THEN [all |-> a2, offset |-> off, requests |-> issued,
                  result |-> Returned(SubSeq(a2, 1, Min(m, Len(a2))))]
            ELSE RunAlone(Tail(h), a2, off + PAGE_LIMIT, issued, m, name)

\* The responses the call of species id has taken in so far: the body of the
\* last one is still to come while the call awaits res.json().
Consumed(id) ==
  IF pc[id] = "awaitJson"
  THEN SubSeq(history[id], 1, Len(history[id]) - 1)
  ELSE history[id]

\* C10 (isolation): under every interleaving, the accumulator, the offset,
\* the requests issued and the outcome of each species' call are the ones
\* that call has when it runs by itself against the responses it received.
C10_Isolation ==
  \A id \in SpeciesIds :
    pc[id] # "idle" =>
      LET alone == RunAlone(Consumed(id), <<>>, 0, <<>>, maxRecords[id],
                            SpeciesById(id).scientificName)
      IN /\ all[id] = alone.all
         /\ offset[id] = alone.offset
         /\ requests[id] = alone.requests
         /\ result[id] = alone.result

\* Two species' calls each went through two pages while the third was still
\* in flight, and returned different records.
C10_Witness ==
  \E id, t \in SpeciesIds :
    /\ id # t
    /\ result[id].kind = "returned" /\ Len(requests[id]) = 2
    /\ result[t].kind = "returned" /\ Len(requests[t]) = 2
    /\ Len(result[id].value) = 2 /\ Len(result[t].value) = 1
    /\ \E u \in SpeciesIds : pc[u] = "awaitJson" /\ Len(all[u]) = 1

\* ------------------------------------------------ computeGridCells alone

\* The points of the occurrences passed to computeGridCells, in tenths of a
\* degree: (35.4, -120.9), (35.9, -120.1), (-0.5, 0.3), (-0.5, Infinity).
GridPoints ==
  { Sanitized(RawRecord(1, Num(354), Num(-1209))),
    Sanitized(RawRecord(2, Num(359), Num(-1201))),
    Sanitized(RawRecord(3, Num(-5), Num(3))),
    Sanitized(RawRecord(4, Num(-5), Inf(1))) }

\* Cell sizes of 0.5, 1 and 2 degrees: dividing a double by them is exact.
CellSizes == {5, 10, 20}

GridInit ==
  /\ InitFetch
  /\ InitApp
  /\ gridArgs \in [occurrences : SeqsUpTo(GridPoints, MaxOccurrences),
                   cellSizeDeg : CellSizes,
                   thresholds : [high : 1..MaxThreshold, medium : 1..MaxThreshold]]
  /\ gridResult = Pending

NextGrid == ComputeGrid /\ UNCHANGED << fetchVars, history, appVars >>

SpecGrid == GridInit /\ [][NextGrid]_vars

\* ------------------------------------------ properties of computeGridCells

RECURSIVE SumOfCounts(_)
SumOfCounts(cells) ==
  IF cells = <<>> THEN 0 ELSE Head(cells).count + SumOfCounts(Tail(cells))

\* C6 (summary consistency): in the result of computeGridCells the three
\* tier counters add up to cellCount, which is the number of cells returned;
\* the cells' counts add up to totalRecords, which is the length of the
\* input; the empty input gives no cells and a summary of zeros.
C6_SummaryConsistency ==
  gridResult.kind = "returned" =>
    LET cells == gridResult.value.cells
        s == gridResult.value.summary
    IN /\ s.highCount + s.medCount + s.lowCount = s.cellCount
       /\ s.cellCount = Len(cells)
       /\ SumOfCounts(cells) = s.totalRecords
       /\ s.totalRecords = Len(gridArgs.occurrences)
       /\ gridArgs.occurrences = <<>> =>
            /\ cells = <<>>
            /\ s = [totalRecords |-> 0, cellCount |-> 0, highCount |-> 0,
                    medCount |-> 0, lowCount |-> 0]

\* A result of three cells in two tiers for four records, one cell holding
\* two of them.
C6_Witness ==
  /\ gridResult.kind = "returned"
  /\ gridResult.value.summary.cellCount = 3
  /\ gridArgs.thresholds.high = gridArgs.thresholds.medium
  /\ gridResult.value.summary.highCount = 1
  /\ gridResult.value.summary.lowCount = 2
  /\ gridResult.value.summary.totalRecords = 4

FloorOf(x, c) ==
  IF x.t = "infinity" THEN x
  ELSE LET q == (IF x.v >= 0 THEN x.v ELSE -x.v) \div c
       IN Num(CHOOSE n \in (-q - 1)..(q + 1) : n * c <= x.v /\ x.v < (n + 1) * c)

IndexPair(o, c) == << FloorOf(o.lat, c), FloorOf(o.lng, c) >>

\* C8 (cell assignment): every input record is in exactly one cell, the one
\* of its index pair (floor(lat / cellSize), floor(lng / cellSize)); there is
\* one cell per index pair of the input; a cell's count is the number of
\* input records with its index pair and the length of its samples, which
\* are those records in input order; cells come in the order in which their
\* index pairs first appear in the input; with cell size 1 the point
\* (35.4, -120.9) is in cell (35, -121).
C8_CellAssignment ==
  gridResult.kind = "returned" =>
    LET cells == gridResult.value.cells
        occ == gridArgs.occurrences
        c == gridArgs.cellSizeDeg
        pair == [i \in DOMAIN occ |-> IndexPair(occ[i], c)]
    IN /\ \A i \in DOMAIN occ :
            Cardinality({ j \in DOMAIN cells : cells[j].id = pair[i] }) = 1
       /\ Len(cells) = Cardinality({ pair[i] : i \in DOMAIN occ })
       /\ \A j \in DOMAIN cells :
            LET members == { i \in DOMAIN occ : pair[i] = cells[j].id }
            IN /\ members # {}
               /\ cells[j].count = Cardinality(members)
               /\ cells[j].count = Len(cells[j].samples)
               /\ \A k \in DOMAIN cells[j].samples :
                    /\ \E i \in members :
                         /\ cells[j].samples[k] = occ[i]
                         /\ Cardinality({ i2 \in members : i2 <= i }) = k
                    /\ (c = 10 /\ cells[j].samples[k].lat = Num(354)
                               /\ cells[j].samples[k].lng = Num(-1209)) =>
                         cells[j].id = << Num(35), Num(-121) >>
       /\ \A j, k \in DOMAIN cells :
            j < k => \E i \in DOMAIN occ :
                       /\ pair[i] = cells[j].id
                       /\ \A i2 \in 1..i : pair[i2] # cells[k].id

\* With cell size 1, (35.4, -120.9) and (35.9, -120.1) share cell (35, -121),
\* first in the output although a record of cell (-1, 0) came between them.
C8_Witness ==
  /\ gridResult.kind = "returned"
  /\ gridArgs.cellSizeDeg = 10
  /\ Len(gridResult.value.cells) = 2
  /\ gridResult.value.cells[1].id = << Num(35), Num(-121) >>
  /\ gridResult.value.cells[1].count = 2
  /\ gridResult.value.cells[2].id = << Num(-1), Num(0) >>
  /\ gridArgs.occurrences[2].lat = Num(-5)


\* ------------------------------------ a source that answers without end

\* The number of requests up to which the source of SpecLong answers as it
\* likes.  It lies beyond RequestBound(m) for every cap m the calls are
\* given; past it the source has to end the call, which keeps the run finite.
Horizon == MaxCap + 2

LongAnswers(id, D) ==
  { d \in D : Len(requests[id]) < Horizon \/ Stops(id, d) }

NextLong ==
  \/ \E id \in SpeciesIds, m \in 0..MaxCap :
       Call(id, m) /\ UNCHANGED << history, appVars, gridVars >>
  \/ \E id \in { t \in SpeciesIds : pc[t] = "awaitFetch" } :
       \E d \in LongAnswers(id, FetchData) :
         FetchResolves(id, OkResponse, d) /\ UNCHANGED << history, appVars, gridVars >>
  \/ \E id \in SpeciesIds, r \in FailResponses :
       FetchResolves(id, r, NoBody) /\ UNCHANGED << history, appVars, gridVars >>
  \/ \E id \in SpeciesIds :
       FetchRejects(id) /\ UNCHANGED << history, appVars, gridVars >>
  \/ \E id \in SpeciesIds :
       JsonResolves(id) /\ UNCHANGED << history, appVars, gridVars >>

SpecLong == Init /\ [][NextLong]_vars

\* The requests a call with cap m issues when every page that does not end
\* it adds at least one record: after k such pages all holds k records or
\* more, and the loop test lets the call go on only while that is below m.
RequestBound(m) == m

\* C11: bounded fetching.  Whatever pages the source returns, a call issues
\* a bounded number of page requests: no more than its cap maxRecords, the
\* only quantity of the call that the loop counts.
C11_BoundedFetching ==
  \A id \in SpeciesIds :
    pc[id] # "idle" => Len(requests[id]) <= RequestBound(maxRecords[id])


\* ------------------------------------------- an abandoned all-species fetch

\* C12: abandoned fetches stop.  Once App has unmounted while load is in
\* flight (isMounted is false), every fetchOccurrencesForSpecies call sees it
\* before its next page request, so no step issues a page request.
C12_AbandonedFetchesStop ==
  [][~isMounted => requests' = requests]_vars

====
